---- MODULE Spec2Model ----
(***************************************************************************)
(* The smithay display server of leftwm: the handle the window manager     *)
(* core holds (SmithayHandle), the backend thread it spawns (the calloop   *)
(* event loop with its input, session and action sources) and the          *)
(* ManagedWindow record.                                                   *)
(***************************************************************************)
EXTENDS Integers, Sequences, FiniteSets, TLC

(***************************************************************************)
(* Bounds of the model.                                                    *)
(***************************************************************************)
MaxWindows == 2
MaxSent == 2
MaxRequests == 1
MaxBatch == 2
MaxEvents == 3
MaxInput == 1
MaxSession == 2
MaxDevices == 2
MaxCalls == 3

(***************************************************************************)
(* Program constants.                                                      *)
(***************************************************************************)
OFFSET == 11
MaxI32 == 2147483647
MinI32 == (-MaxI32) - 1

(***************************************************************************)
(* Option<T>: None, Some(x).                                               *)
(***************************************************************************)
None == << >>
Some(x) == << x >>
is_some_and(opt, P(_)) == opt # None /\ P(opt[1])

(***************************************************************************)
(* managed_window.rs                                                       *)
(***************************************************************************)
(* The record of managed_window.rs:30-35, with its derived Default. *)
ManagedWindowData_default ==
    [managed |-> FALSE, floating |-> FALSE, visible |-> FALSE, geometry |-> None]

ManagedWindow_new(window) ==
    [window |-> window, data |-> ManagedWindowData_default, handle |-> None]

eq_Derived(self, other) ==
    self.handle = other.handle

eq(self, other) ==
    is_some_and(self.handle,
                LAMBDA h1 : is_some_and(other.handle, LAMBDA h2 : h2 = h1))

set_handle_Overwrite(self, handle) ==
    [self EXCEPT !.handle = Some(handle)]

set_handle(self, handle) ==
    IF self.handle = None THEN [self EXCEPT !.handle = Some(handle)] ELSE self

get_handle(self) == self.handle

(***************************************************************************)
(* State.                                                                  *)
(*   corePc          the WM core's thread: in new() ("new"), holding the   *)
(*                   handle ("ready"), handle dropped, or panicked         *)
(*   init_notify     the oneshot channel of new()                          *)
(*   returned        the last call on the handle that returned, and the    *)
(*                   display event it returned, if any                     *)
(*   sentLog         the actions of the core's calls, in the order of the  *)
(*                   calls                                                 *)
(*   bePc            the backend thread: an initialisation stage, then the *)
(*                   main loop ("loop_top", "dispatch"), "exited" or       *)
(*                   "panicked"                                            *)
(*   sources         the event sources inserted into the event loop        *)
(*   running         state.running                                         *)
(*   result          the last value of `result` in the main loop           *)
(*   book            the calls the current iteration of the loop made      *)
(*                   after its dispatch returned, in order                 *)
(*   actionQ         the calloop channel of InternalAction                 *)
(*   closedSeen      channel::Event::Closed was delivered                  *)
(*   sent            number of actions the core enqueued                   *)
(*   dispatched      the actions the handler received, in order            *)
(*   window_registry state.window_registry: handle -> ManagedWindow        *)
(*   space           state.space: the mapped elements, bottom to top       *)
(*   focus           the window holding input focus                        *)
(*   libinput, drm, idle   the input context, the render devices and the   *)
(*                   idle callbacks inserted per device                    *)
(*   sessionLog      the session events handled so far                     *)
(*   errorsLogged    number of error!() lines the session handler logged   *)
(*   inputs, vt      number of input events handled; the VT of the last    *)
(*                   session.change_vt call                                *)
(*   inputLog        the input events handled, each with what the keyboard *)
(*                   did with it: forwarded to the focused client or not,  *)
(*                   and the VT change it led to                           *)
(*   eventQ, emitted, delivered, quiet, calls   the event channel, the     *)
(*                   number of events enqueued, the events returned by     *)
(*                   get_next_events, whether nothing was enqueued since   *)
(*                   the last drain, and the number of drains              *)
(*   waitPc          the core's wait_readable future: none ("idle"),       *)
(*                   awaited, completed or dropped before completing       *)
(*   mwA, mwB        two ManagedWindow values                              *)
(*   firstHandle, lastHandle   the handles of the first and of the latest  *)
(*                   set_handle call on mwA                                *)
(*   locks           the RwLock of each window's data: whether the write   *)
(*                   guard is out, and the number of read guards out       *)
(*   cur             the action the handler is in the middle of            *)
(*   rd              the render-path readers: where each is in             *)
(*                   render_elements, and for which window                 *)
(***************************************************************************)
VARIABLES corePc, init_notify, returned, sentLog, bePc, sources, running, result, book,
          actionQ, closedSeen, sent, dispatched,
          window_registry, space, focus,
          libinput, drm, idle, sessionLog, errorsLogged,
          inputs, vt, inputLog,
          eventQ, emitted, delivered, quiet, calls, waitPc,
          mwA, mwB, firstHandle, lastHandle,
          locks, cur, rd

coreVars == << corePc, init_notify, sent, returned, sentLog >>
loopVars == << bePc, sources, running, result, book, closedSeen, dispatched >>
winVars == << window_registry, space, focus >>
sessVars == << libinput, drm, idle, sessionLog, errorsLogged >>
inputVars == << inputs, vt, inputLog >>
eventVars == << eventQ, emitted, delivered, quiet, calls, waitPc >>
mwVars == << mwA, mwB, firstHandle, lastHandle >>
lockVars == << locks, cur, rd >>
vars == << coreVars, loopVars, actionQ, winVars, sessVars, inputVars, eventVars,
           mwVars, lockVars >>

(***************************************************************************)
(* Window handles as the WM core names them (leftwm_core WindowHandle):    *)
(* the backend's own variant, and a variant of another backend.            *)
(***************************************************************************)
(* The render passes that read window data: one per output. *)
Readers == {"output_a", "output_b"}

SmithayHandle(h) == << "SmithayHandle", h >>
ForeignHandle == << "XlibHandle", 1 >>

(***************************************************************************)
(* i32 subtraction: a build with overflow checks panics on underflow, a    *)
(* build without them wraps (b > 0).                                       *)
(***************************************************************************)
sub_i32(a, b) ==
    IF a >= MinI32 + b
    THEN [overflow |-> FALSE, val |-> a - b]
    ELSE [overflow |-> TRUE, val |-> MaxI32 - ((b - 1) - (a - MinI32))]

(***************************************************************************)
(* The window registry: handle h is position h of the sequence. insert     *)
(* mints the next handle and assigns it to the window with set_handle.     *)
(***************************************************************************)
registry_insert(reg, window) ==
    Append(reg, set_handle(window, Len(reg) + 1))

registry_get(reg, handle) ==
    IF handle \in DOMAIN reg THEN Some(reg[handle]) ELSE None

(***************************************************************************)
(* The toplevel surface of a new window: no pending size, no configure     *)
(* sent. configured is the size the last configure carried to the client   *)
(* (send_configure sends the pending state).                               *)
(***************************************************************************)
Window_new(id) == [id |-> id, pending_size |-> None, configured |-> None]

(***************************************************************************)
(* state.space: unmap_elem removes the elements equal to the one given,    *)
(* map_element puts the element on top at a location, replacing an equal   *)
(* element. An element is a clone of the registry's window (it shares the  *)
(* surface and the data), kept here as its handle.                         *)
(***************************************************************************)
unmap_elem(sp, reg, managed_window) ==
    SelectSeq(sp, LAMBDA e : ~ eq(reg[e.elem], managed_window))

map_element(sp, reg, managed_window, location) ==
    Append(unmap_elem(sp, reg, managed_window),
           [elem |-> get_handle(managed_window)[1], loc |-> location])

(***************************************************************************)
(* SmithayState::focus_window: input focus goes to the window of the       *)
(* handle; the lookup of an unknown handle is fatal.                       *)
(***************************************************************************)
focus_window(st, handle) ==
    IF registry_get(st.reg, handle) = None
    THEN [st EXCEPT !.panic = TRUE]
    ELSE [st EXCEPT !.focus = Some(handle)]

(***************************************************************************)
(* let WindowHandle::SmithayHandle(handle) = .. else { panic!(..) }        *)
(***************************************************************************)
smithay_handle_Coerce(wh) == Some(wh[2])

smithay_handle(wh) ==
    IF wh[1] = "SmithayHandle" THEN Some(wh[2]) ELSE None

(***************************************************************************)
(* The action source's handler (lib.rs:210-341). st is the backend state   *)
(* the handler works on: [reg, space, focus, panic]; panic is set when the *)
(* handler panics, which ends the backend thread.                          *)
(***************************************************************************)
Panic_Swallowed(st) == st

Panic(st) == [st EXCEPT !.panic = TRUE]

(* The arms that are todo!(). *)
Unimplemented_WithSetWindowOrder ==
    {"KillWindow", "MoveMouseOver", "MoveMouseOverPoint", "SetState", "MoveToTop",
     "DestroyedWindow", "Unfocus", "ReplayClick", "ReadyToResizeWindow",
     "ReadyToMoveWindow", "NormalMode", "ConfigureXlibWindow", "SetWindowOrder"}

Unimplemented ==
    {"KillWindow", "MoveMouseOver", "MoveMouseOverPoint", "SetState", "MoveToTop",
     "DestroyedWindow", "Unfocus", "ReplayClick", "ReadyToResizeWindow",
     "ReadyToMoveWindow", "NormalMode", "ConfigureXlibWindow"}

(* The arms that are empty. *)
Ignored == {"SetWindowOrder", "SetCurrentTags"}

(* The body of the loop over the windows of an UpdateWindows action;       *)
(* checks says whether the build checks arithmetic overflow.               *)
update_window_NoOffset(st, window, checks) ==
    LET handle == smithay_handle(window.handle) IN
    IF handle = None THEN Panic(st)
    ELSE
    LET found == registry_get(st.reg, handle[1]) IN
    IF found = None THEN Panic(st)
    ELSE
    LET managed_window == found[1]
        mapped == map_element(st.space, st.reg, managed_window,
                              << window.x, window.y >>)
        toplevel == [managed_window.window EXCEPT
                        !.pending_size = Some(<< window.w, window.h >>),
                        !.configured = Some(<< window.w, window.h >>)]
    IN [st EXCEPT !.space = mapped, !.reg[handle[1]].window = toplevel]

update_window_SkipUnknown(st, window, checks) ==
    LET handle == smithay_handle(window.handle) IN
    IF handle = None THEN Panic(st)
    ELSE
    LET found == registry_get(st.reg, handle[1]) IN
    IF found = None THEN st
    ELSE
    LET managed_window == found[1]
        x == sub_i32(window.x, OFFSET)
        y == sub_i32(window.y, OFFSET)
        mapped == map_element(st.space, st.reg, managed_window, << x.val, y.val >>)
        toplevel == [managed_window.window EXCEPT
                        !.pending_size = Some(<< window.w, window.h >>),
                        !.configured = Some(<< window.w, window.h >>)]
    IN [st EXCEPT !.space = mapped, !.reg[handle[1]].window = toplevel]

update_window_StoresGeometry(st, window, checks) ==
    LET handle == smithay_handle(window.handle) IN
    IF handle = None THEN Panic(st)
    ELSE
    LET found == registry_get(st.reg, handle[1]) IN
    IF found = None THEN Panic(st)
    ELSE
    LET managed_window == found[1]
        unmapped == unmap_elem(st.space, st.reg, managed_window)
        x == sub_i32(window.x, OFFSET)
        y == sub_i32(window.y, OFFSET)
    IN
    IF (x.overflow \/ y.overflow) /\ checks
    THEN Panic([st EXCEPT !.space = unmapped])
    ELSE
    LET mapped == map_element(unmapped, st.reg, managed_window, << x.val, y.val >>)
        toplevel == [managed_window.window EXCEPT
                        !.pending_size = Some(<< window.w, window.h >>),
                        !.configured = Some(<< window.w, window.h >>)]
    IN [st EXCEPT !.space = mapped, !.reg[handle[1]].window = toplevel,
                  !.reg[handle[1]].data.visible = TRUE,
                  !.reg[handle[1]].data.geometry =
                      Some(<< x.val, y.val, window.w, window.h >>)]

update_window(st, window, checks) ==
    LET handle == smithay_handle(window.handle) IN
    IF handle = None THEN Panic(st)
    ELSE
    LET found == registry_get(st.reg, handle[1]) IN
    IF found = None THEN Panic(st)
    ELSE
    LET managed_window == found[1]
        unmapped == unmap_elem(st.space, st.reg, managed_window)
        x == sub_i32(window.x, OFFSET)
        y == sub_i32(window.y, OFFSET)
    IN
    IF (x.overflow \/ y.overflow) /\ checks
    THEN Panic([st EXCEPT !.space = unmapped])
    ELSE
    LET mapped == map_element(unmapped, st.reg, managed_window, << x.val, y.val >>)
        toplevel == [managed_window.window EXCEPT
                        !.pending_size = Some(<< window.w, window.h >>),
                        !.configured = Some(<< window.w, window.h >>)]
    IN [st EXCEPT !.space = mapped, !.reg[handle[1]].window = toplevel]

RECURSIVE update_windows_loop_Atomic(_, _, _)
update_windows_loop_Atomic(st, windows, checks) ==
    IF windows = << >> \/ st.panic THEN st
    ELSE IF \E i \in DOMAIN windows :
               \/ smithay_handle(windows[i].handle) = None
               \/ registry_get(st.reg, windows[i].handle[2]) = None
         THEN Panic(st)
         ELSE update_windows_loop_Atomic(update_window(st, Head(windows), checks),
                                         Tail(windows), checks)

RECURSIVE update_windows_loop(_, _, _)
update_windows_loop(st, windows, checks) ==
    IF windows = << >> \/ st.panic THEN st
    ELSE update_windows_loop(update_window(st, Head(windows), checks),
                             Tail(windows), checks)

added_window_AlwaysFocus(st, wh, floating, take_focus) ==
    LET handle == smithay_handle(wh) IN
    IF handle = None THEN Panic(st)
    ELSE IF registry_get(st.reg, handle[1]) = None THEN Panic(st)
    ELSE focus_window([st EXCEPT !.reg[handle[1]].data.floating = floating,
                                 !.reg[handle[1]].data.managed = TRUE],
                      handle[1])

added_window(st, wh, floating, take_focus) ==
    LET handle == smithay_handle(wh) IN
    IF handle = None THEN Panic(st)
    ELSE IF registry_get(st.reg, handle[1]) = None THEN Panic(st)
    ELSE
    LET written == [st EXCEPT !.reg[handle[1]].data.floating = floating,
                              !.reg[handle[1]].data.managed = TRUE]
    IN IF take_focus THEN focus_window(written, handle[1]) ELSE written

window_take_focus(st, wh) ==
    LET handle == smithay_handle(wh) IN
    IF handle = None THEN Panic(st) ELSE focus_window(st, handle[1])

(* focus_window_under: focus goes to the topmost mapped element, the       *)
(* pointer being over it, or stays when none is mapped.                    *)
focus_window_under(st) ==
    IF st.space = << >> THEN st
    ELSE [st EXCEPT !.focus = Some(st.space[Len(st.space)].elem)]

(* An assignment to a field of the data record under its write lock. The   *)
(* record holds the fields of ManagedWindowData and no others: a field it  *)
(* does not have cannot take a value.                                      *)
assign_field(data, field, value) ==
    IF field \in DOMAIN data THEN [data EXCEPT ![field] = value] ELSE data

(* window.data.write().unwrap().tag = tag (lib.rs:325); ManagedWindowData  *)
(* (managed_window.rs:30-35) declares no field tag.                        *)
set_window_tag(st, wh, tag) ==
    LET handle == smithay_handle(wh) IN
    IF handle = None THEN Panic(st)
    ELSE IF registry_get(st.reg, handle[1]) = None THEN Panic(st)
    ELSE [st EXCEPT !.reg[handle[1]].data = assign_field(@, "tag", tag)]

(* flush_ok: whether display.flush_clients() returns Ok. *)
dispatch_action(st, act, checks, flush_ok) ==
    CASE act.kind = "Flush" -> IF flush_ok THEN st ELSE Panic(st)
      [] act.kind = "GenerateVerifyFocusEvent" -> st
      [] act.kind = "UpdateWindows" -> update_windows_loop(st, act.windows, checks)
      [] act.kind = "AddedWindow" ->
            added_window(st, act.handle, act.floating, act.focus)
      [] act.kind = "WindowTakeFocus" -> window_take_focus(st, act.handle)
      [] act.kind = "FocusWindowUnderCursor" -> focus_window_under(st)
      [] act.kind = "SetWindowTag" -> set_window_tag(st, act.handle, act.tag)
      [] act.kind \in Unimplemented -> Panic(st)
      [] act.kind \in Ignored -> st

(***************************************************************************)
(* The values the environment and the WM core choose from.                 *)
(***************************************************************************)
HandlesSent == { SmithayHandle(h) : h \in 1..MaxWindows } \cup { ForeignHandle }

(* The geometry of the window snapshot at position i of a batch, in one of *)
(* two families; x - OFFSET underflows i32 for the first snapshot of       *)
(* family 1.                                                               *)
Geometry(family, i) ==
    IF family = 1 /\ i = 1
    THEN [x |-> MinI32 + 5, y |-> 0, w |-> 640, h |-> 480]
    ELSE [x |-> (10 * i) + family, y |-> 20 * i, w |-> 100 * i, h |-> 50 + i]

WindowSnapshot(wh, g) == [handle |-> wh, x |-> g.x, y |-> g.y, w |-> g.w, h |-> g.h]

RECURSIVE SeqsUpTo(_, _)
SeqsUpTo(S, n) ==
    IF n = 0 THEN { << >> }
    ELSE LET shorter == SeqsUpTo(S, n - 1)
         IN shorter \cup { Append(s, x) : s \in shorter, x \in S }

(* The batches update_windows is called with: up to MaxBatch snapshots of  *)
(* any handles, the same handle more than once included.                   *)
Batches ==
    { [i \in 1..Len(hs) |-> WindowSnapshot(hs[i], Geometry(family, i))] :
        hs \in SeqsUpTo(HandlesSent, MaxBatch), family \in 0..1 }

Tags == { None, Some(1), Some(7) }

DisplayActions ==
    { [kind |-> k] : k \in Unimplemented \cup Ignored \cup {"FocusWindowUnderCursor"} }
    \cup { [kind |-> "AddedWindow", handle |-> wh, floating |-> fl, focus |-> fo] :
             wh \in HandlesSent, fl \in BOOLEAN, fo \in BOOLEAN }
    \cup { [kind |-> "WindowTakeFocus", handle |-> wh] : wh \in HandlesSent }
    \cup { [kind |-> "SetWindowTag", handle |-> wh, tag |-> t] :
             wh \in HandlesSent, t \in Tags }

(***************************************************************************)
(* Init: new() has created the channels and spawned the backend thread.    *)
(***************************************************************************)
InitOrder_NotifyEarly ==
    << "setup", "reg_input", "reg_session", "stage2", "notify", "reg_action" >>

(* The backend thread's steps before the main loop, in program order       *)
(* (lib.rs:65-344).                                                        *)
InitOrder ==
    << "setup", "reg_input", "reg_session", "stage2", "reg_action", "notify" >>

InitStages == { InitOrder[i] : i \in 1..Len(InitOrder) }
StageIndex(s) == CHOOSE i \in 1..Len(InitOrder) : InitOrder[i] = s
AfterStage(s) ==
    IF StageIndex(s) = Len(InitOrder) THEN "loop_top" ELSE InitOrder[StageIndex(s) + 1]

AllSources == {"input", "session", "action"}

Init ==
    /\ corePc = "new"
    /\ init_notify = "pending"
    /\ sent = 0
    /\ sentLog = << >>
    /\ returned = [call |-> "none", event |-> None]
    /\ dispatched = << >>
    /\ bePc = InitOrder[1]
    /\ sources = {}
    /\ running = TRUE
    /\ result = "none"
    /\ book = << >>
    /\ closedSeen = FALSE
    /\ actionQ = << >>
    /\ window_registry = << >>
    /\ space = << >>
    /\ focus = None
    /\ libinput = "active"
    /\ drm = << >>
    /\ idle = << >>
    /\ sessionLog = << >>
    /\ errorsLogged = 0
    /\ inputs = 0
    /\ vt = None
    /\ inputLog = << >>
    /\ eventQ = << >>
    /\ emitted = 0
    /\ delivered = << >>
    /\ quiet = FALSE
    /\ calls = 0
    /\ waitPc = "idle"
    /\ mwA = ManagedWindow_new(Window_new(1))
    /\ mwB = ManagedWindow_new(Window_new(2))
    /\ firstHandle = None
    /\ lastHandle = None
    /\ locks = [w \in 1..MaxWindows |-> [writer |-> FALSE, readers |-> 0]]
    /\ cur = None
    /\ rd = [r \in Readers |-> [pc |-> "idle", win |-> 1]]

SenderAlive == corePc \in {"new", "ready"}
BackendGone == bePc \in {"exited", "panicked"}

(* The backend thread's closure owns the event sender (in the state) and   *)
(* the action receiver (in the event loop): both are dropped when the      *)
(* thread ends.                                                            *)
EventChannelClosed == BackendGone
ActionChannelClosed == BackendGone

(***************************************************************************)
(* The backend thread before the main loop. ndev is the number of render   *)
(* devices init_udev_stage_2 finds.                                        *)
(***************************************************************************)
BackendInit(ndev) ==
    /\ bePc \in InitStages
    /\ bePc' = AfterStage(bePc)
    /\ sources' = CASE bePc = "reg_input" -> sources \cup {"input"}
                    [] bePc = "reg_session" -> sources \cup {"session"}
                    [] bePc = "reg_action" -> sources \cup {"action"}
                    [] OTHER -> sources
    /\ init_notify' = IF bePc = "notify" THEN "sent" ELSE init_notify
    /\ drm' = IF bePc = "stage2" THEN [d \in 1..ndev |-> "active"] ELSE drm
    /\ idle' = IF bePc = "stage2" THEN [d \in 1..ndev |-> 0] ELSE idle
    /\ UNCHANGED << corePc, sent, returned, sentLog, running, result, book, closedSeen, dispatched,
                    actionQ, winVars, libinput, sessionLog, errorsLogged, inputVars, eventVars,
                    mwVars, lockVars >>

(* An unwrap() or panic!() of the initialisation fails: the thread ends    *)
(* and drops init_notify_sender. The send itself cannot fail while new()   *)
(* waits.                                                                  *)
BackendInitFail ==
    /\ bePc \in InitStages \ {"notify"}
    /\ bePc' = "panicked"
    /\ init_notify' = IF init_notify = "pending" THEN "dropped" ELSE init_notify
    /\ UNCHANGED << corePc, sent, returned, sentLog, sources, running, result, book, closedSeen,
                    dispatched, actionQ, winVars, sessVars, inputVars, eventVars, mwVars, lockVars >>

(***************************************************************************)
(* new(): init_notify_receiver.blocking_recv().unwrap(), then the handle.  *)
(***************************************************************************)
new_returns ==
    /\ corePc = "new"
    /\ init_notify = "sent"
    /\ corePc' = "ready"
    /\ UNCHANGED << init_notify, sent, returned, sentLog, loopVars, actionQ, winVars, sessVars,
                    inputVars, eventVars, mwVars, lockVars >>

new_panics ==
    /\ corePc = "new"
    /\ init_notify = "dropped"
    /\ corePc' = "panicked"
    /\ UNCHANGED << init_notify, sent, returned, sentLog, loopVars, actionQ, winVars, sessVars,
                    inputVars, eventVars, mwVars, lockVars >>

(***************************************************************************)
(* The WM core's calls on the handle. action_sender.send(..).unwrap():     *)
(* the send fails, and the unwrap panics, when the receiver is gone. limit *)
(* bounds the number of actions the core sends.                            *)
(***************************************************************************)
channel_send_Front(queue, msg) == << msg >> \o queue

(* action_sender.send(msg): the message joins the channel behind those     *)
(* sent before it.                                                         *)
channel_send(queue, msg) == Append(queue, msg)

send_Twice(call, msg, event, limit) ==
    /\ corePc = "ready"
    /\ sent < limit
    /\ IF BackendGone
       THEN /\ corePc' = "panicked"
            /\ UNCHANGED << actionQ, sent, returned, sentLog >>
       ELSE /\ actionQ' = Append(Append(actionQ, msg), msg)
            /\ sent' = sent + 1
            /\ sentLog' = Append(sentLog, msg)
            /\ returned' = [call |-> call, event |-> event]
            /\ UNCHANGED corePc
    /\ UNCHANGED << init_notify, loopVars, winVars, sessVars, inputVars, eventVars,
                    mwVars, lockVars >>

(* call is the method, event the Option<DisplayEvent> it returns after the *)
(* send (None also for the methods that return nothing).                   *)
send(call, msg, event, limit) ==
    /\ corePc = "ready"
    /\ sent < limit
    /\ IF ActionChannelClosed
       THEN /\ corePc' = "panicked"
            /\ UNCHANGED << actionQ, sent, returned, sentLog >>
       ELSE /\ actionQ' = channel_send(actionQ, msg)
            /\ sent' = sent + 1
            /\ sentLog' = Append(sentLog, msg)
            /\ returned' = [call |-> call, event |-> event]
            /\ UNCHANGED corePc
    /\ UNCHANGED << init_notify, loopVars, winVars, sessVars, inputVars, eventVars,
                    mwVars, lockVars >>

flush == send("flush", [kind |-> "Flush"], None, MaxSent)

generate_verify_focus_event ==
    send("generate_verify_focus_event", [kind |-> "GenerateVerifyFocusEvent"], None,
         MaxSent)

update_windows(windows, limit) ==
    send("update_windows", [kind |-> "UpdateWindows", windows |-> windows], None, limit)

execute_action(act, limit) == send("execute_action", act, None, limit)

(* The core drops the handle: the action channel loses its only sender. *)
drop_handle ==
    /\ corePc = "ready"
    /\ corePc' = "dropped"
    /\ UNCHANGED << init_notify, sent, returned, sentLog, loopVars, actionQ, winVars, sessVars,
                    inputVars, eventVars, mwVars, lockVars >>

(***************************************************************************)
(* The main loop (lib.rs:346-359).                                         *)
(***************************************************************************)
loop_condition_Always(flag) == TRUE

(* while state.running.load(..) *)
loop_condition(flag) == flag

LoopTop ==
    /\ bePc = "loop_top"
    /\ bePc' = IF loop_condition(running) THEN "dispatch" ELSE "exited"
    /\ book' = << >>
    /\ UNCHANGED << coreVars, sources, running, result, closedSeen, dispatched,
                    actionQ, winVars, sessVars, inputVars, eventVars, mwVars, lockVars >>

closed_handler_Noop(flag) == flag

(* channel::Event::Closed => running.store(false) *)
closed_handler(flag) == FALSE

error_branch_Noop(flag) == flag

error_branch_Restart(flag) == ~ flag

(* if result.is_err() { running.store(false) } *)
error_branch(flag) == FALSE

(* The action source delivers a message to the handler. *)
HandleMsg ==
    /\ bePc = "dispatch"
    /\ "action" \in sources
    /\ actionQ # << >>
    /\ \E checks \in BOOLEAN, flush_ok \in BOOLEAN :
         LET st == dispatch_action([reg |-> window_registry, space |-> space,
                                    focus |-> focus, panic |-> FALSE],
                                   Head(actionQ), checks, flush_ok)
         IN /\ window_registry' = st.reg
            /\ space' = st.space
            /\ focus' = st.focus
            /\ bePc' = IF st.panic THEN "panicked" ELSE bePc
    /\ actionQ' = Tail(actionQ)
    /\ dispatched' = Append(dispatched, Head(actionQ))
    /\ UNCHANGED << coreVars, sources, running, result, book, closedSeen, sessVars,
                    inputVars, eventVars, mwVars, lockVars >>

(* The action source delivers Closed: every sender is gone and the queue   *)
(* is empty.                                                               *)
HandleClosed ==
    /\ bePc = "dispatch"
    /\ "action" \in sources
    /\ actionQ = << >>
    /\ ~ SenderAlive
    /\ ~ closedSeen
    /\ closedSeen' = TRUE
    /\ running' = closed_handler(running)
    /\ UNCHANGED << coreVars, bePc, sources, result, book, dispatched, actionQ, winVars,
                    sessVars, inputVars, eventVars, mwVars, lockVars >>

post_dispatch_Always(res) == << "refresh", "flush_clients" >>

(* The calls after dispatch returned (lib.rs:352-358): none on Err, else   *)
(* state.space.refresh() and then display.flush_clients().                 *)
post_dispatch(res) ==
    IF res = "err" THEN << >> ELSE << "refresh", "flush_clients" >>

(* event_loop.dispatch returns, at the latest when its 16ms timeout ends;  *)
(* on Ok the idle callbacks have run. flush_ok: whether flush_clients()    *)
(* returns Ok; the result is unwrapped.                                    *)
DispatchEnd(res, flush_ok) ==
    /\ bePc = "dispatch"
    /\ result' = res
    /\ book' = post_dispatch(res)
    /\ IF res = "err"
       THEN /\ running' = error_branch(running)
            /\ bePc' = "loop_top"
            /\ UNCHANGED idle
       ELSE /\ idle' = [d \in DOMAIN idle |-> 0]
            /\ bePc' = IF flush_ok THEN "loop_top" ELSE "panicked"
            /\ UNCHANGED running
    /\ UNCHANGED << coreVars, sources, closedSeen, dispatched, actionQ, winVars,
                    libinput, drm, sessionLog, errorsLogged, inputVars, eventVars,
                    mwVars, lockVars >>

(***************************************************************************)
(* The input source's handler (lib.rs:97-161).                             *)
(***************************************************************************)
KEY_Return == 65293
KEY_Q == 81
KEY_XF86Switch_VT_1 == 269024769
KEY_XF86Switch_VT_12 == 269024780

KeySyms == { KEY_Return, KEY_Q, 97, KEY_XF86Switch_VT_1 - 1, KEY_XF86Switch_VT_1,
             KEY_XF86Switch_VT_1 + 1, KEY_XF86Switch_VT_12, KEY_XF86Switch_VT_12 + 1 }

KeyEvents ==
    { [kind |-> "Keyboard", pressed |-> p, logo |-> l, shift |-> sh, sym |-> s] :
        p \in BOOLEAN, l \in BOOLEAN, sh \in BOOLEAN, s \in KeySyms }

OtherInputEvents ==
    { [kind |-> k] : k \in {"PointerMotion", "PointerMotionAbsolute", "DeviceAdded",
                            "PointerButton"} }

(* The filter closure given to keyboard.input: what it does besides the    *)
(* LED update, and the FilterResult.                                       *)
keyboard_filter_ZeroBased(event) ==
    IF ~ event.pressed THEN [effect |-> "none", intercept |-> None]
    ELSE IF event.logo /\ event.shift /\ event.sym = KEY_Return
    THEN [effect |-> "spawn", intercept |-> None]
    ELSE IF event.logo /\ event.shift /\ event.sym = KEY_Q
    THEN [effect |-> "quit", intercept |-> None]
    ELSE IF event.sym \in KEY_XF86Switch_VT_1..KEY_XF86Switch_VT_12
    THEN [effect |-> "none", intercept |-> Some(event.sym - KEY_XF86Switch_VT_1)]
    ELSE [effect |-> "none", intercept |-> None]

keyboard_filter(event) ==
    IF ~ event.pressed THEN [effect |-> "none", intercept |-> None]
    ELSE IF event.logo /\ event.shift /\ event.sym = KEY_Return
    THEN [effect |-> "spawn", intercept |-> None]
    ELSE IF event.logo /\ event.shift /\ event.sym = KEY_Q
    THEN [effect |-> "quit", intercept |-> None]
    ELSE IF event.sym \in KEY_XF86Switch_VT_1..KEY_XF86Switch_VT_12
    THEN [effect |-> "none",
          intercept |-> Some((event.sym - KEY_XF86Switch_VT_1) + 1)]
    ELSE [effect |-> "none", intercept |-> None]

(* env_ok: whether the call the event leads to (Command::spawn, change_vt) *)
(* returns Ok; both results are unwrapped. keyboard.input forwards the key *)
(* to the focused client unless the filter intercepts it, and returns the  *)
(* intercepted value, with which change_vt is called.                      *)
HandleInput(event, env_ok) ==
    /\ bePc = "dispatch"
    /\ "input" \in sources
    /\ inputs < MaxInput
    /\ inputs' = inputs + 1
    /\ IF event.kind = "Keyboard"
       THEN LET f == keyboard_filter(event) IN
            /\ running' = IF f.effect = "quit" THEN FALSE ELSE running
            /\ vt' = IF f.intercept # None THEN f.intercept ELSE vt
            /\ inputLog' =
                  Append(inputLog,
                         [event |-> event,
                          forwarded |-> f.intercept = None
                                        /\ ~ (f.effect = "spawn" /\ ~ env_ok),
                          vt |-> f.intercept])
            /\ bePc' = IF (f.effect = "spawn" \/ f.intercept # None) /\ ~ env_ok
                       THEN "panicked" ELSE bePc
       ELSE /\ bePc' = IF event.kind = "PointerMotionAbsolute" THEN "panicked" ELSE bePc
            /\ inputLog' = Append(inputLog, [event |-> event, forwarded |-> FALSE,
                                             vt |-> None])
            /\ UNCHANGED << running, vt >>
    /\ UNCHANGED << coreVars, sources, result, book, closedSeen, dispatched, actionQ,
                    winVars, sessVars, eventVars, mwVars, lockVars >>

(***************************************************************************)
(* The session source's handler (lib.rs:167-203). resume_ok: whether       *)
(* libinput_context.resume() returns Ok; an error is logged.               *)
(***************************************************************************)
activate_drm_SkipFirst(devices) ==
    [d \in DOMAIN devices |-> IF d = 1 THEN devices[d] ELSE "active"]

(* for backend in devices { backend.drm.activate() } *)
activate_drm(devices) == [d \in DOMAIN devices |-> "active"]

HandleSession(event, resume_ok) ==
    /\ bePc = "dispatch"
    /\ "session" \in sources
    /\ Len(sessionLog) < MaxSession
    /\ sessionLog' = Append(sessionLog, event)
    /\ IF event = "PauseSession"
       THEN /\ libinput' = "suspended"
            /\ drm' = [d \in DOMAIN drm |-> "paused"]
            /\ UNCHANGED << idle, errorsLogged >>
       ELSE /\ libinput' = IF resume_ok THEN "active" ELSE libinput
            /\ errorsLogged' = IF resume_ok THEN errorsLogged ELSE errorsLogged + 1
            /\ drm' = activate_drm(drm)
            /\ idle' = [d \in DOMAIN idle |-> idle[d] + 1]
    /\ UNCHANGED << coreVars, loopVars, actionQ, winVars, inputVars, eventVars,
                    mwVars, lockVars >>

(***************************************************************************)
(* A client creates a toplevel: the backend makes its ManagedWindow and    *)
(* registers it.                                                           *)
(***************************************************************************)
RegisterWindow ==
    /\ bePc = "dispatch"
    /\ Len(window_registry) < MaxWindows
    /\ window_registry' =
           registry_insert(window_registry,
                           ManagedWindow_new(Window_new(Len(window_registry) + 1)))
    /\ UNCHANGED << coreVars, loopVars, actionQ, space, focus, sessVars, inputVars,
                    eventVars, mwVars, lockVars >>

(***************************************************************************)
(* The event channel: the backend enqueues display events, numbered in     *)
(* the order of their enqueueing; collect_events takes all that are        *)
(* queued.                                                                 *)
(***************************************************************************)
event_send(queue, event) == Append(queue, event)

collect_events(queue) == [events |-> queue, rest |-> << >>]

EmitEvent ==
    /\ ~ EventChannelClosed
    /\ emitted < MaxEvents
    /\ emitted' = emitted + 1
    /\ eventQ' = event_send(eventQ, emitted + 1)
    /\ quiet' = FALSE
    /\ UNCHANGED << coreVars, loopVars, actionQ, winVars, sessVars, inputVars,
                    delivered, calls, waitPc, mwVars, lockVars >>

get_next_events_First(queue) ==
    [events |-> IF queue = << >> THEN << >> ELSE << Head(queue) >>, rest |-> << >>]

(* get_next_events (lib.rs:372-375) *)
get_next_events(queue) == collect_events(queue)

GetNextEvents ==
    /\ corePc = "ready"
    /\ waitPc # "waiting"
    /\ calls < MaxCalls
    /\ calls' = calls + 1
    /\ LET got == get_next_events(eventQ) IN
         /\ delivered' = delivered \o got.events
         /\ eventQ' = got.rest
    /\ quiet' = TRUE
    /\ UNCHANGED << coreVars, loopVars, actionQ, winVars, sessVars, inputVars,
                    emitted, waitPc, mwVars, lockVars >>

(***************************************************************************)
(* wait_readable (lib.rs:379-381): the future of the receiver, which is    *)
(* ready when the event channel holds an event. The future borrows the     *)
(* handle, so the core makes no other call on the handle while it awaits.  *)
(***************************************************************************)
receiver_wait_readable(queue) == queue # << >>

wait_readable_Second(queue) == Len(queue) > 1

wait_readable(queue) == receiver_wait_readable(queue)

WaitBegin ==
    /\ corePc = "ready"
    /\ waitPc # "waiting"
    /\ waitPc' = "waiting"
    /\ UNCHANGED << coreVars, loopVars, actionQ, winVars, sessVars, inputVars,
                    eventQ, emitted, delivered, quiet, calls, mwVars, lockVars >>

WaitComplete ==
    /\ waitPc = "waiting"
    /\ wait_readable(eventQ)
    /\ waitPc' = "completed"
    /\ UNCHANGED << coreVars, loopVars, actionQ, winVars, sessVars, inputVars,
                    eventQ, emitted, delivered, quiet, calls, mwVars, lockVars >>

(* The core drops the future before it completed. *)
WaitAbandon ==
    /\ waitPc = "waiting"
    /\ waitPc' = "abandoned"
    /\ UNCHANGED << coreVars, loopVars, actionQ, winVars, sessVars, inputVars,
                    eventQ, emitted, delivered, quiet, calls, mwVars, lockVars >>

(***************************************************************************)
(* ManagedWindow values on their own: construction, set_handle and writes  *)
(* to the data.                                                            *)
(***************************************************************************)
WindowHandles == 1..MaxWindows

MW_new(w) ==
    /\ mwA' = ManagedWindow_new(Window_new(w))
    /\ firstHandle' = None
    /\ lastHandle' = None
    /\ UNCHANGED << coreVars, loopVars, actionQ, winVars, sessVars, inputVars,
                    eventVars, mwB, lockVars >>

MW_set_handle(h) ==
    /\ mwA' = set_handle(mwA, h)
    /\ firstHandle' = IF firstHandle = None THEN Some(h) ELSE firstHandle
    /\ lastHandle' = Some(h)
    /\ UNCHANGED << coreVars, loopVars, actionQ, winVars, sessVars, inputVars,
                    eventVars, mwB, lockVars >>

MW_other_set_handle(h) ==
    /\ mwB' = set_handle(mwB, h)
    /\ UNCHANGED << coreVars, loopVars, actionQ, winVars, sessVars, inputVars,
                    eventVars, mwA, firstHandle, lastHandle,
                    lockVars >>

MW_write(fl, ma) ==
    /\ mwB' = [mwB EXCEPT !.data.floating = fl, !.data.managed = ma]
    /\ UNCHANGED << coreVars, loopVars, actionQ, winVars, sessVars, inputVars,
                    eventVars, mwA, firstHandle, lastHandle,
                    lockVars >>

MW_other_new(w) ==
    /\ mwB' = ManagedWindow_new(Window_new(w))
    /\ UNCHANGED << coreVars, loopVars, actionQ, winVars, sessVars, inputVars,
                    eventVars, mwA, firstHandle, lastHandle,
                    lockVars >>

NextManagedWindow ==
    \/ \E w \in 1..2 : MW_new(w)
    \/ \E h \in WindowHandles : MW_set_handle(h)
    \/ \E h \in WindowHandles : MW_other_set_handle(h)
    \/ \E fl \in BOOLEAN, ma \in BOOLEAN : MW_write(fl, ma)
    \/ \E w \in 1..2 : MW_other_new(w)

SpecManagedWindow == Init /\ [][NextManagedWindow]_vars

(***************************************************************************)
(* The AddedWindow and SetWindowTag arms statement by statement, with the  *)
(* RwLock of the window's data. bePc names the statement the handler is    *)
(* about to execute. write() waits while any guard of the lock is out,     *)
(* read() while the write guard is out.                                    *)
(***************************************************************************)
AddedWindowOrder_FocusLocked ==
    << "aw_write", "aw_floating", "aw_managed", "aw_focus", "aw_drop" >>

AddedWindowOrder_SplitGuard ==
    << "aw_write", "aw_floating", "aw_drop", "aw_managed", "aw_focus" >>

(* lib.rs:255-262, after the handle is resolved *)
AddedWindowOrder ==
    << "aw_write", "aw_floating", "aw_managed", "aw_drop", "aw_focus" >>

(* lib.rs:325: the guard is a temporary of the assignment statement *)
SetWindowTagOrder == << "st_write", "st_assign", "st_drop" >>

HandlerSteps ==
    { AddedWindowOrder[i] : i \in 1..Len(AddedWindowOrder) }
    \cup { SetWindowTagOrder[i] : i \in 1..Len(SetWindowTagOrder) }

OrderOf(step) ==
    IF \E i \in 1..Len(AddedWindowOrder) : AddedWindowOrder[i] = step
    THEN AddedWindowOrder ELSE SetWindowTagOrder

AfterStep(step) ==
    LET order == OrderOf(step)
        i == CHOOSE j \in 1..Len(order) : order[j] = step
    IN IF i = Len(order) THEN "dispatch" ELSE order[i + 1]

LockFree(l) == ~ l.writer /\ l.readers = 0

(* The handler receives AddedWindow or SetWindowTag and resolves the       *)
(* handle (lib.rs:251-254, 321-324).                                       *)
HandlerBegin ==
    /\ bePc = "dispatch"
    /\ "action" \in sources
    /\ actionQ # << >>
    /\ Head(actionQ).kind \in {"AddedWindow", "SetWindowTag"}
    /\ actionQ' = Tail(actionQ)
    /\ dispatched' = Append(dispatched, Head(actionQ))
    /\ LET handle == smithay_handle(Head(actionQ).handle) IN
       IF handle = None \/ registry_get(window_registry, handle[1]) = None
       THEN /\ bePc' = "panicked"
            /\ cur' = None
       ELSE /\ bePc' = IF Head(actionQ).kind = "AddedWindow"
                       THEN AddedWindowOrder[1] ELSE SetWindowTagOrder[1]
            /\ cur' = Some(Head(actionQ))
    /\ UNCHANGED << coreVars, sources, running, result, book, closedSeen, winVars, sessVars,
                    inputVars, eventVars, mwVars, locks, rd >>

HandlerStep ==
    /\ bePc \in HandlerSteps
    /\ LET act == cur[1]
           h == act.handle[2]
       IN /\ bePc \in {"aw_write", "st_write"} => LockFree(locks[h])
          /\ locks' = CASE bePc \in {"aw_write", "st_write"} ->
                             [locks EXCEPT ![h].writer = TRUE]
                        [] bePc \in {"aw_drop", "st_drop"} ->
                             [locks EXCEPT ![h].writer = FALSE]
                        [] OTHER -> locks
          /\ window_registry' =
                CASE bePc = "aw_floating" ->
                       [window_registry EXCEPT ![h].data.floating = act.floating]
                  [] bePc = "aw_managed" ->
                       [window_registry EXCEPT ![h].data.managed = TRUE]
                  [] bePc = "st_assign" ->
                       [window_registry EXCEPT
                          ![h].data = assign_field(@, "tag", act.tag)]
                  [] OTHER -> window_registry
          /\ focus' = IF bePc = "aw_focus" /\ act.focus
                      THEN focus_window([reg |-> window_registry, space |-> space,
                                         focus |-> focus, panic |-> FALSE], h).focus
                      ELSE focus
    /\ bePc' = AfterStep(bePc)
    /\ cur' = IF AfterStep(bePc) = "dispatch" THEN None ELSE cur
    /\ UNCHANGED << coreVars, sources, running, result, book, closedSeen, dispatched,
                    actionQ, space, sessVars, inputVars, eventVars, mwVars, rd >>

(* render_elements (managed_window.rs:208-238) for the window w, once per  *)
(* render pass: the data is read only when the window is not the focused   *)
(* one.                                                                    *)
RenderBegin(r, w) ==
    /\ rd[r].pc = "idle"
    /\ w \in DOMAIN window_registry
    /\ rd' = [rd EXCEPT ![r] = [pc |-> IF get_handle(window_registry[w]) = focus
                                       THEN "done" ELSE "read",
                                win |-> w]]
    /\ UNCHANGED << coreVars, loopVars, actionQ, winVars, sessVars, inputVars,
                    eventVars, mwVars, locks, cur >>

(* self.data.read() *)
RenderRead(r) ==
    /\ rd[r].pc = "read"
    /\ ~ locks[rd[r].win].writer
    /\ locks' = [locks EXCEPT ![rd[r].win].readers = @ + 1]
    /\ rd' = [rd EXCEPT ![r].pc = "reading"]
    /\ UNCHANGED << coreVars, loopVars, actionQ, winVars, sessVars, inputVars,
                    eventVars, mwVars, cur >>

(* .floating is read and the guard, a temporary of the condition, dropped *)
RenderDrop(r) ==
    /\ rd[r].pc = "reading"
    /\ locks' = [locks EXCEPT ![rd[r].win].readers = @ - 1]
    /\ rd' = [rd EXCEPT ![r].pc = "done"]
    /\ UNCHANGED << coreVars, loopVars, actionQ, winVars, sessVars, inputVars,
                    eventVars, mwVars, cur >>

(***************************************************************************)
(* Specifications. Each takes the steps of the program and the inputs of   *)
(* the part it is about; all start from Init.                              *)
(***************************************************************************)

(* The backend thread with a quiet environment: initialisation succeeds,   *)
(* every dispatch returns Ok.                                              *)
BackendRuns ==
    \/ BackendInit(MaxDevices)
    \/ new_returns
    \/ LoopTop
    \/ DispatchEnd("ok", TRUE)

(* Startup, the main loop and shutdown. *)
LifecycleActions ==
    { [kind |-> k] : k \in {"KillWindow", "SetWindowOrder"} }

LifecycleInputs ==
    { [kind |-> "Keyboard", pressed |-> TRUE, logo |-> TRUE, shift |-> TRUE, sym |-> s] :
        s \in {KEY_Q, 97} }
    \cup { [kind |-> "PointerMotionAbsolute"] }

(* An empty batch, and one snapshot naming the first backend handle. *)
LifecycleBatches ==
    { << >>, << WindowSnapshot(SmithayHandle(1), Geometry(0, 1)) >> }

Next ==
    \/ BackendInit(MaxDevices)
    \/ BackendInitFail
    \/ new_returns
    \/ new_panics
    \/ flush
    \/ generate_verify_focus_event
    \/ \E a \in LifecycleActions : execute_action(a, MaxSent)
    \/ \E ws \in LifecycleBatches : update_windows(ws, MaxSent)
    \/ drop_handle
    \/ LoopTop
    \/ HandleMsg
    \/ HandleClosed
    \/ \E res \in {"ok", "err"}, ok \in BOOLEAN : DispatchEnd(res, ok)
    \/ \E ev \in LifecycleInputs : HandleInput(ev, TRUE)

Spec == Init /\ [][Next]_vars

(* The action dispatcher on display actions of every kind. *)
NextDispatch ==
    \/ BackendRuns
    \/ RegisterWindow
    \/ \E a \in DisplayActions : execute_action(a, MaxRequests)
    \/ HandleMsg

SpecDispatch == Init /\ [][NextDispatch]_vars

(* The action dispatcher on window updates, and the registry. *)
NextGeometry ==
    \/ BackendRuns
    \/ RegisterWindow
    \/ \E ws \in Batches : update_windows(ws, MaxRequests)
    \/ HandleMsg

SpecGeometry == Init /\ [][NextGeometry]_vars

(* The session source. *)
NextSession ==
    \/ \E n \in 0..MaxDevices : BackendInit(n)
    \/ new_returns
    \/ LoopTop
    \/ DispatchEnd("ok", TRUE)
    \/ \E ev \in {"PauseSession", "ActivateSession"}, ok \in BOOLEAN :
          HandleSession(ev, ok)

SpecSession == Init /\ [][NextSession]_vars

(* The action dispatcher on the actions that write a window's data or the  *)
(* focus.                                                                  *)
WindowDataActions ==
    { a \in DisplayActions : a.kind \in {"AddedWindow", "SetWindowTag", "WindowTakeFocus"} }

NextWindowData ==
    \/ BackendRuns
    \/ RegisterWindow
    \/ \E a \in WindowDataActions : execute_action(a, MaxSent)
    \/ HandleMsg

SpecWindowData == Init /\ [][NextWindowData]_vars

(* The action dispatcher on every action that names a window handle. *)
NextHandles ==
    \/ BackendRuns
    \/ RegisterWindow
    \/ \E a \in WindowDataActions : execute_action(a, MaxRequests)
    \/ \E ws \in Batches : update_windows(ws, MaxRequests)
    \/ HandleMsg

SpecHandles == Init /\ [][NextHandles]_vars

(* The action dispatcher on a window's record from its creation on: the    *)
(* arms that write window data or the focus, and window updates.           *)
NextRecord ==
    \/ BackendRuns
    \/ RegisterWindow
    \/ \E a \in WindowDataActions : execute_action(a, MaxSent)
    \/ \E ws \in LifecycleBatches : update_windows(ws, MaxSent)
    \/ HandleMsg

SpecRecord == Init /\ [][NextRecord]_vars

(* The AddedWindow and SetWindowTag arms step by step, with render-path    *)
(* readers taking their steps at any time.                                 *)
LockActions ==
    { [kind |-> "AddedWindow", handle |-> SmithayHandle(h), floating |-> fl,
       focus |-> fo] : h \in 1..MaxWindows, fl \in BOOLEAN, fo \in BOOLEAN }
    \cup { [kind |-> "SetWindowTag", handle |-> SmithayHandle(h), tag |-> Some(7)] :
             h \in 1..MaxWindows }

NextLocks ==
    \/ BackendRuns
    \/ RegisterWindow
    \/ \E a \in LockActions : execute_action(a, MaxRequests)
    \/ HandlerBegin
    \/ HandlerStep
    \/ \E r \in Readers, w \in 1..MaxWindows : RenderBegin(r, w)
    \/ \E r \in Readers : RenderRead(r)
    \/ \E r \in Readers : RenderDrop(r)

SpecLocks == Init /\ [][NextLocks]_vars

(* Repeated AddedWindow actions for one window, with render-path readers   *)
(* of that window taking their steps at any time.                          *)
RepeatedAddedWindow ==
    { [kind |-> "AddedWindow", handle |-> SmithayHandle(1), floating |-> fl,
       focus |-> FALSE] : fl \in BOOLEAN }

NextAtomic ==
    \/ BackendRuns
    \/ RegisterWindow
    \/ \E a \in RepeatedAddedWindow : execute_action(a, MaxSent)
    \/ HandlerBegin
    \/ HandlerStep
    \/ \E r \in Readers : RenderBegin(r, 1)
    \/ \E r \in Readers : RenderRead(r)
    \/ \E r \in Readers : RenderDrop(r)

SpecAtomic == Init /\ [][NextAtomic]_vars

(* Fatal dispatches and what the core sees of them on the two channels. *)
FatalActions ==
    { [kind |-> k] : k \in {"KillWindow", "SetWindowOrder"} }
    \cup { [kind |-> "AddedWindow", handle |-> ForeignHandle, floating |-> FALSE,
            focus |-> FALSE] }

NextFatal ==
    \/ BackendRuns
    \/ \E a \in FatalActions : execute_action(a, MaxSent)
    \/ \E ws \in LifecycleBatches : update_windows(ws, MaxSent)
    \/ HandleMsg
    \/ EmitEvent
    \/ GetNextEvents

SpecFatal == Init /\ [][NextFatal]_vars

(* The input source. *)
NextInput ==
    \/ BackendRuns
    \/ \E ev \in KeyEvents \cup OtherInputEvents, ok \in BOOLEAN : HandleInput(ev, ok)

SpecInput == Init /\ [][NextInput]_vars

(* SpecInput with the scheduling of the backend thread: the loop test and  *)
(* the return of dispatch happen when they can.                            *)
FairSpecInput ==
    /\ SpecInput
    /\ WF_vars(LoopTop)
    /\ WF_vars(DispatchEnd("ok", TRUE))

(* The event channel. *)
NextEvents ==
    \/ BackendRuns
    \/ EmitEvent
    \/ GetNextEvents
    \/ WaitBegin
    \/ WaitComplete
    \/ WaitAbandon

SpecEvents == Init /\ [][NextEvents]_vars

(* SpecEvents with the scheduling of the core's executor: a future that is *)
(* ready and still awaited is polled to completion.                        *)
FairSpecEvents == SpecEvents /\ WF_vars(WaitComplete)

(* Spec with the scheduling of the backend thread: the loop test and the   *)
(* return of dispatch (at the latest after the 16ms timeout) happen when   *)
(* they can, and a dispatch calls the handler of every source that is      *)
(* ready, so a queued message or a closed channel is handled.              *)
FairSpec ==
    /\ Spec
    /\ WF_vars(LoopTop)
    /\ WF_vars(\E res \in {"ok", "err"}, ok \in BOOLEAN : DispatchEnd(res, ok))
    /\ SF_vars(HandleMsg)
    /\ SF_vars(HandleClosed)

(***************************************************************************)
(* C1. Action-channel closure: once the handler has seen the channel       *)
(* closed the running flag is false, the loop starts no dispatch after the *)
(* one that saw the closure, and after the core dropped the handle of a    *)
(* running loop the backend thread ends.                                   *)
(***************************************************************************)
C1_ActionChannelClosure ==
    /\ [](closedSeen => ~ running)
    /\ [][(closedSeen /\ bePc # "dispatch") => bePc' # "dispatch"]_vars
    /\ ((corePc = "dropped" /\ bePc \in {"loop_top", "dispatch"}) ~> BackendGone)

C1_Witness == closedSeen /\ corePc = "dropped" /\ bePc = "exited"

(***************************************************************************)
(* C3. Startup handshake: new() has returned the handle only when the      *)
(* three sources are registered and the readiness notification was sent;   *)
(* an action is enqueued only with the action source registered; when the  *)
(* backend thread fails before the notification, new() returns no handle.  *)
(***************************************************************************)
C3_StartupHandshake ==
    /\ corePc \in {"ready", "dropped"} => (sources = AllSources /\ init_notify = "sent")
    /\ (sent > 0 \/ actionQ # << >>) => "action" \in sources
    /\ init_notify = "dropped" => (corePc \in {"new", "panicked"} /\ sent = 0)

C3_Witness == corePc = "ready" /\ actionQ # << >> /\ sources = AllSources

(***************************************************************************)
(* C7. Loop continuation: at the top of the loop a dispatch starts exactly *)
(* when the running flag is true; after a dispatch returned an error the   *)
(* flag is false and the loop is at its top or has exited, never in        *)
(* another dispatch.                                                       *)
(***************************************************************************)
C7_LoopContinuation ==
    /\ [][(bePc = "loop_top" /\ bePc' # bePc) =>
             (IF running THEN bePc' = "dispatch" ELSE bePc' = "exited")]_vars
    /\ [](result = "err" => (~ running /\ bePc \in {"loop_top", "exited"}))

C7_Witness == result = "err" /\ bePc = "exited" /\ ~ closedSeen /\ inputs = 0

(***************************************************************************)
(* C2. Suppressed-vs-fatal partition: the step that dispatches             *)
(* SetWindowOrder or SetCurrentTags leaves the backend thread where it is  *)
(* and changes nothing but the queue; the step that dispatches KillWindow  *)
(* or another unimplemented display action ends the backend thread.        *)
(***************************************************************************)
C2_SuppressedVsFatal ==
    [][(actionQ # << >> /\ dispatched' = Append(dispatched, Head(actionQ))) =>
         /\ Head(actionQ).kind \in {"SetWindowOrder", "SetCurrentTags"} =>
               /\ bePc' = bePc
               /\ bePc' \notin {"exited", "panicked"}
               /\ UNCHANGED << coreVars, sources, running, result, closedSeen,
                               winVars, sessVars, inputVars, eventVars >>
         /\ Head(actionQ).kind \in
                {"KillWindow", "MoveMouseOver", "MoveMouseOverPoint", "SetState",
                 "MoveToTop", "DestroyedWindow", "Unfocus", "ReplayClick",
                 "ReadyToResizeWindow", "ReadyToMoveWindow", "NormalMode",
                 "ConfigureXlibWindow"} =>
               bePc' = "panicked"
      ]_vars

C2_Witness ==
    /\ dispatched # << >>
    /\ dispatched[1].kind = "SetWindowOrder"
    /\ window_registry # << >>
    /\ bePc = "loop_top"
    /\ result = "ok"

(***************************************************************************)
(* C4. Event delivery ordering: the events get_next_events has returned,   *)
(* followed by the events still queued, are the events enqueued, in the    *)
(* order of their enqueueing (none lost, none twice); a call leaves the    *)
(* queue empty, and a call with nothing enqueued since the call before it  *)
(* returns nothing.                                                        *)
(***************************************************************************)
C4_EventDeliveryOrdering ==
    /\ [](delivered \o eventQ = [i \in 1..emitted |-> i])
    /\ [][calls' = calls + 1 =>
            /\ eventQ' = << >>
            /\ quiet => delivered' = delivered]_vars

C4_Witness ==
    /\ calls >= 2
    /\ Len(delivered) >= 2
    /\ eventQ # << >>

(***************************************************************************)
(* C5 as stated. Geometry update consumption: after the dispatch of an     *)
(* UpdateWindows action that completes, the window of every snapshot of    *)
(* the action with a registered handle and with x - OFFSET, y - OFFSET in  *)
(* i32 is placed at (x - OFFSET, y - OFFSET) with pending size (w, h).     *)
(***************************************************************************)
C5_EverySnapshotPlaced ==
    [][(/\ actionQ # << >>
        /\ Head(actionQ).kind = "UpdateWindows"
        /\ dispatched' = Append(dispatched, Head(actionQ))
        /\ bePc' # "panicked") =>
         \A i \in DOMAIN Head(actionQ).windows :
            LET snap == Head(actionQ).windows[i]
                h == snap.handle[2]
                placed == SelectSeq(space', LAMBDA e : e.elem = h)
            IN (/\ snap.handle[1] = "SmithayHandle"
                /\ h \in DOMAIN window_registry
                /\ snap.x >= MinI32 + OFFSET
                /\ snap.y >= MinI32 + OFFSET) =>
                  /\ Len(placed) = 1
                  /\ placed[1].loc = << snap.x - 11, snap.y - 11 >>
                  /\ window_registry'[h].window.pending_size = Some(<< snap.w, snap.h >>)
      ]_vars

(***************************************************************************)
(* C5, amended. After the dispatch of an UpdateWindows action that         *)
(* completes, every registered window the action lists is in the layout    *)
(* once, at (x - OFFSET, y - OFFSET) in wrapping i32 arithmetic with       *)
(* OFFSET = 11, its pending size is (w, h) and a configure with that size  *)
(* was sent, x, y, w, h being those of the last snapshot of the action     *)
(* that lists the window. Whether or not the dispatch completes, the       *)
(* placement, the surface state and the data of every window the action    *)
(* does not list are unchanged.                                            *)
(***************************************************************************)
C5_GeometryUpdate ==
    [][(/\ actionQ # << >>
        /\ Head(actionQ).kind = "UpdateWindows"
        /\ dispatched' = Append(dispatched, Head(actionQ))) =>
         LET windows == Head(actionQ).windows
             Listing(h) == { i \in DOMAIN windows : windows[i].handle = SmithayHandle(h) }
             Last(h) == windows[CHOOSE i \in Listing(h) : \A j \in Listing(h) : j <= i]
             Wrapped(v) == IF v >= MinI32 + 11 THEN v - 11
                           ELSE (v + MaxI32) + (MaxI32 - 9)
             Placed(sp, h) == SelectSeq(sp, LAMBDA e : e.elem = h)
         IN /\ DOMAIN window_registry' = DOMAIN window_registry
            /\ \A h \in DOMAIN window_registry :
                 IF Listing(h) = {}
                 THEN /\ window_registry'[h] = window_registry[h]
                      /\ Placed(space', h) = Placed(space, h)
                 ELSE bePc' # "panicked" =>
                      /\ Len(Placed(space', h)) = 1
                      /\ Placed(space', h)[1].loc =
                             << Wrapped(Last(h).x), Wrapped(Last(h).y) >>
                      /\ window_registry'[h].window.pending_size =
                             Some(<< Last(h).w, Last(h).h >>)
                      /\ window_registry'[h].window.configured =
                             Some(<< Last(h).w, Last(h).h >>)
                      /\ window_registry'[h].data = window_registry[h].data
      ]_vars

C5_Witness ==
    /\ Len(window_registry) = 2
    /\ bePc # "panicked"
    /\ Len(dispatched) = 1
    /\ dispatched[1].kind = "UpdateWindows"
    /\ Len(dispatched[1].windows) = 2
    /\ \A i \in 1..2 : dispatched[1].windows[i].handle = SmithayHandle(1)
    /\ space = << [elem |-> 1, loc |-> << 20 - OFFSET, 40 - OFFSET >>] >>
    /\ window_registry[1].window.pending_size = Some(<< 200, 52 >>)
    /\ window_registry[2].window.pending_size = None

(***************************************************************************)
(* C6 as stated. Session pause/resume round-trip: the ActivateSession      *)
(* event that follows a PauseSession event leaves every render device      *)
(* active and the input subsystem resumed, and schedules one idle render   *)
(* per device.                                                             *)
(***************************************************************************)
C6_RoundTripResumesInput ==
    [][(/\ sessionLog # << >>
        /\ sessionLog[Len(sessionLog)] = "PauseSession"
        /\ sessionLog' = Append(sessionLog, "ActivateSession")) =>
         /\ \A d \in DOMAIN drm' : drm'[d] = "active"
         /\ libinput' = "active"
         /\ \A d \in DOMAIN idle' : idle'[d] = idle[d] + 1
      ]_vars

(***************************************************************************)
(* C6, amended. The ActivateSession event that follows a PauseSession      *)
(* event leaves every render device active and schedules one idle render   *)
(* per device; it leaves the input subsystem resumed when libinput's       *)
(* resume succeeds, and suspended, with the error logged, when it fails.   *)
(***************************************************************************)
C6_SessionRoundTrip ==
    [][(/\ sessionLog # << >>
        /\ sessionLog[Len(sessionLog)] = "PauseSession"
        /\ sessionLog' = Append(sessionLog, "ActivateSession")) =>
         /\ DOMAIN drm' = DOMAIN drm
         /\ \A d \in DOMAIN drm' : drm'[d] = "active"
         /\ DOMAIN idle' = DOMAIN drm
         /\ \A d \in DOMAIN idle' : idle'[d] = idle[d] + 1
         /\ IF errorsLogged' = errorsLogged
            THEN libinput' = "active"
            ELSE libinput' = "suspended" /\ errorsLogged' = errorsLogged + 1
      ]_vars

C6_Witness ==
    /\ sessionLog = << "PauseSession", "ActivateSession" >>
    /\ Len(drm) = MaxDevices
    /\ \A d \in DOMAIN drm : drm[d] = "active" /\ idle[d] = 1
    /\ libinput = "active"
    /\ errorsLogged = 0

(***************************************************************************)
(* C8. Handle assignment idempotence: whatever set_handle calls follow the *)
(* first one on a ManagedWindow, get_handle returns the handle of the      *)
(* first call.                                                             *)
(***************************************************************************)
C8_HandleAssignmentIdempotence ==
    /\ firstHandle # None => get_handle(mwA) = firstHandle
    /\ firstHandle = None => get_handle(mwA) = None

C8_Witness ==
    /\ firstHandle = Some(1)
    /\ lastHandle = Some(2)
    /\ get_handle(mwA) = Some(1)

(***************************************************************************)
(* C9. Equality identity: two ManagedWindow values are equal exactly when  *)
(* both have a handle and the handles are the same, whatever their data    *)
(* and surface; a value without a handle equals nothing, itself included.  *)
(***************************************************************************)
C9_EqualityIdentity ==
    /\ eq(mwA, mwB) <=>
          (mwA.handle # None /\ mwB.handle # None /\ mwA.handle = mwB.handle)
    /\ eq(mwB, mwA) <=> eq(mwA, mwB)
    /\ eq(mwA, mwA) <=> mwA.handle # None
    /\ eq(mwB, mwB) <=> mwB.handle # None
    /\ mwA.handle = None => (~ eq(mwA, mwB) /\ ~ eq(mwB, mwA))

C9_Witness ==
    /\ mwA.handle = Some(1)
    /\ mwB.handle = Some(1)
    /\ mwA.data # mwB.data
    /\ mwA.window # mwB.window
    /\ eq(mwA, mwB)

(***************************************************************************)
(* C10. Registry round-trip: the lookup of the handle minted for a window  *)
(* finds a record that is equal, by eq, to the window's record with that   *)
(* handle, that is the window's own record and equals the record of no     *)
(* other handle; the dispatch of an action that lists a backend handle not *)
(* in the registry ends the backend thread.                                *)
(***************************************************************************)
C10_RegistryRoundTrip ==
    /\ [](\A h \in DOMAIN window_registry :
            LET found == registry_get(window_registry, h)
                own == set_handle(ManagedWindow_new(Window_new(h)), h)
            IN /\ found # None
               /\ eq(found[1], own)
               /\ eq(own, found[1])
               /\ found[1].window.id = h
               /\ \A g \in DOMAIN window_registry \ {h} :
                     ~ eq(found[1], window_registry[g]))
    /\ [][(/\ actionQ # << >>
           /\ Head(actionQ).kind = "UpdateWindows"
           /\ dispatched' = Append(dispatched, Head(actionQ))
           /\ \E i \in DOMAIN Head(actionQ).windows :
                 LET wh == Head(actionQ).windows[i].handle
                 IN wh[1] = "SmithayHandle" /\ wh[2] \notin DOMAIN window_registry) =>
            bePc' = "panicked"]_vars

C10_Witness ==
    /\ Len(window_registry) = 1
    /\ registry_get(window_registry, 1) # None
    /\ Len(dispatched) = 1
    /\ dispatched[1].kind = "UpdateWindows"
    /\ Len(dispatched[1].windows) = 2
    /\ dispatched[1].windows[1].handle = SmithayHandle(1)
    /\ dispatched[1].windows[2].handle = SmithayHandle(2)
    /\ space # << >>
    /\ bePc = "panicked"

(***************************************************************************)
(* C11 as stated. Fire-and-forget action interface: every call of          *)
(* execute_action, generate_verify_focus_event, flush or update_windows    *)
(* enqueues exactly one action and returns, execute_action and             *)
(* generate_verify_focus_event with no event; the actions enqueued are     *)
(* dispatched one by one in the order of their enqueueing by the running   *)
(* loop, none dropped from the channel and none dispatched twice.          *)
(***************************************************************************)
C11_EveryCallEnqueues ==
    /\ [][(corePc = "ready" /\ (sent' # sent \/ corePc' = "panicked")) =>
            (/\ Len(actionQ') = Len(actionQ) + 1
             /\ SubSeq(actionQ', 1, Len(actionQ)) = actionQ
             /\ corePc' = "ready"
             /\ returned'.event = None)]_vars
    /\ [](returned.call \in {"execute_action", "generate_verify_focus_event"} =>
            returned.event = None)
    /\ [](Len(dispatched) + Len(actionQ) = sent)
    /\ [][dispatched' # dispatched =>
            (/\ bePc = "dispatch"
             /\ actionQ # << >>
             /\ dispatched' = Append(dispatched, Head(actionQ))
             /\ actionQ' = Tail(actionQ))]_vars
    /\ \A k \in 1..MaxSent : (sent >= k) ~> (Len(dispatched) >= k \/ BackendGone)

(***************************************************************************)
(* C11. Fire-and-forget action interface: a call of execute_action,        *)
(* generate_verify_focus_event, flush or update_windows made while the     *)
(* backend thread lives enqueues exactly one action and returns,           *)
(* execute_action and generate_verify_focus_event with no event; a call    *)
(* made after the backend thread has ended enqueues nothing and panics in  *)
(* the caller. The channel changes only by an enqueue at its end or by the *)
(* dispatch of its head by the running loop, so the actions are dispatched *)
(* in order, none twice and none dropped from the channel, and while the   *)
(* backend thread lives every enqueued action comes to be dispatched.      *)
(***************************************************************************)
C11_FireAndForget ==
    /\ [][(corePc = "ready" /\ (sent' # sent \/ corePc' = "panicked")) =>
            IF BackendGone
            THEN /\ actionQ' = actionQ
                 /\ corePc' = "panicked"
                 /\ returned' = returned
            ELSE /\ Len(actionQ') = Len(actionQ) + 1
                 /\ SubSeq(actionQ', 1, Len(actionQ)) = actionQ
                 /\ sent' = sent + 1
                 /\ corePc' = "ready"
                 /\ returned'.event = None]_vars
    /\ [](returned.call \in {"execute_action", "generate_verify_focus_event"} =>
            returned.event = None)
    /\ [](Len(dispatched) + Len(actionQ) = sent)
    /\ [][actionQ' # actionQ =>
            \/ /\ corePc = "ready" /\ ~ BackendGone
               /\ Len(actionQ') = Len(actionQ) + 1
               /\ dispatched' = dispatched
            \/ /\ bePc = "dispatch"
               /\ actionQ # << >>
               /\ dispatched' = Append(dispatched, Head(actionQ))
               /\ actionQ' = Tail(actionQ)]_vars
    /\ [][dispatched' # dispatched => actionQ' # actionQ]_vars
    /\ \A k \in 1..MaxSent : (sent >= k) ~> (Len(dispatched) >= k \/ BackendGone)

C11_Witness ==
    /\ sent = 1
    /\ Len(dispatched) = 1
    /\ actionQ = << >>
    /\ dispatched[1].kind = "KillWindow"
    /\ returned.call = "execute_action"
    /\ bePc = "panicked"
    /\ corePc = "panicked"

(***************************************************************************)
(* C12. wait_readable: a wait completes only when the event channel holds  *)
(* an event, and completing takes no event; while a wait is pending and    *)
(* the channel holds an event, enqueued before or after the wait began,    *)
(* the wait comes to an end (it completes unless the core abandons it);    *)
(* abandoning a wait leaves the channel and what was delivered unchanged.  *)
(***************************************************************************)
C12_WaitReadable ==
    /\ [][(waitPc = "waiting" /\ waitPc' = "completed") =>
            (eventQ # << >> /\ eventQ' = eventQ /\ delivered' = delivered)]_vars
    /\ [][(waitPc = "waiting" /\ waitPc' = "abandoned") =>
            (eventQ' = eventQ /\ delivered' = delivered /\ emitted' = emitted)]_vars
    /\ [][(waitPc = "waiting" /\ waitPc' = "waiting") => Len(eventQ') >= Len(eventQ)]_vars
    /\ ((waitPc = "waiting" /\ eventQ # << >>) ~> (waitPc \in {"completed", "abandoned"}))
    /\ [][(waitPc = "waiting" /\ eventQ # << >> /\ waitPc' # "waiting") =>
            waitPc' \in {"completed", "abandoned"}]_vars

C12_Witness ==
    /\ waitPc = "completed"
    /\ eventQ = << 2 >>
    /\ delivered = << 1 >>
    /\ emitted = 2

C14_AddedWindowDispatch ==
    [][(/\ bePc = "dispatch"
        /\ dispatched' # dispatched
        /\ Head(actionQ).kind = "AddedWindow"
        /\ Head(actionQ).handle[1] = "SmithayHandle"
        /\ Head(actionQ).handle[2] \in DOMAIN window_registry) =>
         LET act == Head(actionQ)
             h == act.handle[2]
         IN /\ window_registry'[h].data =
                   [window_registry[h].data EXCEPT !.floating = act.floating,
                                                   !.managed = TRUE]
            /\ window_registry'[h].window = window_registry[h].window
            /\ window_registry'[h].handle = window_registry[h].handle
            /\ focus' = IF act.focus THEN Some(h) ELSE focus
            /\ DOMAIN window_registry' = DOMAIN window_registry
            /\ \A g \in DOMAIN window_registry \ {h} :
                  window_registry'[g] = window_registry[g]
            /\ space' = space
            /\ bePc' = "dispatch"]_vars

C14_Witness ==
    /\ Len(dispatched) = 2
    /\ dispatched[1] = [kind |-> "AddedWindow", handle |-> SmithayHandle(1),
                        floating |-> TRUE, focus |-> TRUE]
    /\ dispatched[2] = [kind |-> "AddedWindow", handle |-> SmithayHandle(2),
                        floating |-> FALSE, focus |-> FALSE]
    /\ Len(window_registry) = 2
    /\ window_registry[1].data.floating /\ window_registry[1].data.managed
    /\ ~ window_registry[2].data.floating /\ window_registry[2].data.managed
    /\ focus = Some(1)
    /\ bePc = "dispatch"

(***************************************************************************)
(* C15 as stated. SetWindowTag dispatch: after the dispatch of             *)
(* SetWindowTag(handle, tag) for a registered handle the window's data     *)
(* record holds the given tag, its managed, floating, visible and geometry *)
(* fields are as before, and every other window's record is unchanged.     *)
(***************************************************************************)
C15_SetWindowTagStoresTag ==
    [][(/\ bePc = "dispatch"
        /\ dispatched' # dispatched
        /\ Head(actionQ).kind = "SetWindowTag"
        /\ Head(actionQ).handle[1] = "SmithayHandle"
        /\ Head(actionQ).handle[2] \in DOMAIN window_registry) =>
         LET act == Head(actionQ)
             h == act.handle[2]
             before == window_registry[h].data
             after == window_registry'[h].data
         IN /\ "tag" \in DOMAIN after
            /\ after["tag"] = act.tag
            /\ after.managed = before.managed
            /\ after.floating = before.floating
            /\ after.visible = before.visible
            /\ after.geometry = before.geometry
            /\ \A g \in DOMAIN window_registry \ {h} :
                  window_registry'[g] = window_registry[g]]_vars

(***************************************************************************)
(* C16. Invalid handle is fatal: the dispatch of an AddedWindow or a       *)
(* SetWindowTag whose handle is foreign or not in the registry, or of an   *)
(* UpdateWindows with such a handle in any of its entries, ends the        *)
(* backend thread; the thread stays ended and dispatches nothing more.     *)
(***************************************************************************)
C16_InvalidHandleFatal ==
    /\ [][(/\ bePc = "dispatch"
           /\ dispatched' # dispatched
           /\ LET act == Head(actionQ)
                  invalid(wh) == \/ wh[1] # "SmithayHandle"
                                 \/ wh[2] \notin DOMAIN window_registry
              IN \/ /\ act.kind \in {"AddedWindow", "SetWindowTag"}
                    /\ invalid(act.handle)
                 \/ /\ act.kind = "UpdateWindows"
                    /\ \E i \in DOMAIN act.windows : invalid(act.windows[i].handle)) =>
            bePc' = "panicked"]_vars
    /\ [][bePc = "panicked" => (bePc' = "panicked" /\ dispatched' = dispatched)]_vars

C16_Witness ==
    /\ bePc = "panicked"
    /\ Len(window_registry) = 2
    /\ Len(dispatched) = 1
    /\ dispatched[1].kind = "SetWindowTag"
    /\ dispatched[1].handle = ForeignHandle
    /\ actionQ = << >>

(***************************************************************************)
(* C17. Lock discipline: the action dispatcher holds at most one data      *)
(* lock, and only between taking the write guard and dropping it: the      *)
(* guard of AddedWindow and SetWindowTag is dropped before the focus       *)
(* transfer, and none is held where the handler is not running (when the   *)
(* loop renders, refreshes or flushes, and when the thread has ended). A   *)
(* lock never has a writer together with a reader. Whoever waits for a     *)
(* lock waits for a holder that can take its next step, and a holder never *)
(* waits: no interleaving of the dispatcher with render-path readers       *)
(* reaches a state in which the unfinished ones cannot move.               *)
(***************************************************************************)
C17_LockDiscipline ==
    /\ [](Cardinality({ w \in DOMAIN locks : locks[w].writer }) <= 1)
    /\ [](\A w \in DOMAIN locks :
            locks[w].writer =>
               /\ bePc \in {"aw_floating", "aw_managed", "aw_drop", "st_assign", "st_drop"}
               /\ cur # None /\ cur[1].handle[2] = w
               /\ locks[w].readers = 0)
    /\ [](bePc \in {"aw_focus", "dispatch", "loop_top", "exited", "panicked"} =>
            \A w \in DOMAIN locks : ~ locks[w].writer)
    /\ [][focus' # focus => \A w \in DOMAIN locks : ~ locks[w].writer]_vars
    /\ [](\A w \in DOMAIN locks :
            locks[w].readers =
               Cardinality({ r \in DOMAIN rd : rd[r].pc = "reading" /\ rd[r].win = w }))
    /\ []((bePc \in {"aw_write", "st_write"} /\ ~ LockFree(locks[cur[1].handle[2]])) =>
            \E r \in DOMAIN rd : rd[r].pc = "reading" /\ rd[r].win = cur[1].handle[2])
    /\ [](\A r \in DOMAIN rd :
            (rd[r].pc = "read" /\ locks[rd[r].win].writer) =>
               bePc \in {"aw_floating", "aw_managed", "aw_drop", "st_assign", "st_drop"})
    /\ []((bePc \in HandlerSteps \/ \E r \in Readers : rd[r].pc \in {"read", "reading"}) =>
            ENABLED (HandlerStep \/ \E r \in Readers : RenderRead(r) \/ RenderDrop(r)))
    /\ [](bePc \in HandlerSteps \ {"aw_write", "st_write"} => ENABLED HandlerStep)
    /\ [](\A r \in Readers : rd[r].pc = "reading" => ENABLED RenderDrop(r))

C17_Witness ==
    /\ bePc = "aw_focus"
    /\ cur = Some([kind |-> "AddedWindow", handle |-> SmithayHandle(1),
                   floating |-> TRUE, focus |-> TRUE])
    /\ window_registry[1].data.floating /\ window_registry[1].data.managed
    /\ rd["output_a"] = [pc |-> "reading", win |-> 1]
    /\ rd["output_b"] = [pc |-> "read", win |-> 1]
    /\ locks[1] = [writer |-> FALSE, readers |-> 1]

C19_QuitBinding ==
    /\ [][inputLog' # inputLog =>
            LET e == inputLog'[Len(inputLog')].event IN
            IF e.kind = "Keyboard" /\ e.pressed /\ e.logo /\ e.shift /\ e.sym = KEY_Q
            THEN ~ running'
            ELSE running' = running]_vars
    /\ [][(~ running /\ bePc # "dispatch") => bePc' # "dispatch"]_vars
    /\ [][(~ running /\ bePc = "loop_top" /\ bePc' # bePc) => bePc' = "exited"]_vars
    /\ ((\E i \in DOMAIN inputLog :
            LET e == inputLog[i].event IN
            e.kind = "Keyboard" /\ e.pressed /\ e.logo /\ e.shift /\ e.sym = KEY_Q)
        ~> BackendGone)

C19_Witness ==
    /\ inputLog # << >>
    /\ inputLog[1].event = [kind |-> "Keyboard", pressed |-> TRUE, logo |-> TRUE,
                            shift |-> TRUE, sym |-> KEY_Q]
    /\ inputLog[1].forwarded
    /\ ~ running
    /\ bePc = "exited"

C21_RunningMonotone ==
    /\ [](bePc \in InitStages => running)
    /\ [][running' # running =>
            (/\ running /\ ~ running'
             /\ bePc = "dispatch"
             /\ \/ /\ inputLog' # inputLog
                   /\ LET e == inputLog'[Len(inputLog')].event IN
                      e.kind = "Keyboard" /\ e.pressed /\ e.logo /\ e.shift
                      /\ e.sym = KEY_Q
                \/ ~ closedSeen /\ closedSeen'
                \/ result' = "err" /\ bePc' = "loop_top")]_vars
    /\ [][~ running => ~ running']_vars
    /\ [][(~ running /\ bePc # "dispatch") => bePc' # "dispatch"]_vars
    /\ [][(bePc \in {"exited", "panicked"}) => (bePc' = bePc)]_vars

C21_Witness ==
    /\ ~ running
    /\ bePc = "exited"
    /\ closedSeen
    /\ result = "err"
    /\ Len(inputLog) = 1
    /\ inputLog[1].event.kind = "Keyboard"
    /\ inputLog[1].event.sym = KEY_Q

(***************************************************************************)
(* C22. Dispatch order: the actions dispatched followed by the actions     *)
(* still in the channel are the actions of the core's calls in the order   *)
(* of the calls, so the handler receives them in that order; when the      *)
(* handler observes the closure of the channel the core has dropped the    *)
(* handle and every action it had enqueued has been dispatched.            *)
(***************************************************************************)
C22_DispatchOrder ==
    /\ [](dispatched \o actionQ = sentLog)
    /\ [][dispatched' # dispatched =>
            (/\ Len(dispatched) < Len(sentLog)
             /\ dispatched' = Append(dispatched, sentLog[Len(dispatched) + 1])
             /\ sentLog' = sentLog)]_vars
    /\ [][sentLog' # sentLog =>
            (/\ corePc = "ready"
             /\ Len(sentLog') = Len(sentLog) + 1
             /\ SubSeq(sentLog', 1, Len(sentLog)) = sentLog
             /\ dispatched' = dispatched)]_vars
    /\ [][(~ closedSeen /\ closedSeen') =>
            (corePc = "dropped" /\ dispatched = sentLog /\ actionQ = << >>)]_vars
    /\ [](closedSeen => (dispatched = sentLog /\ actionQ = << >>))

C22_Witness ==
    /\ closedSeen
    /\ sentLog = << [kind |-> "Flush"], [kind |-> "SetWindowOrder"] >>
    /\ dispatched = sentLog
    /\ corePc = "dropped"
    /\ bePc = "exited"

(***************************************************************************)
(* C23. AddedWindow is atomic for readers: the stores to floating and to   *)
(* managed are made under one write guard, so whenever a render-path       *)
(* reader holds the read guard of a window whose managed is true, the      *)
(* window's floating is the one given by the last AddedWindow action that  *)
(* stored managed; and managed is true only if some AddedWindow stored it. *)
(***************************************************************************)
StoredManaged(i, w) ==
    /\ dispatched[i].kind = "AddedWindow"
    /\ dispatched[i].handle = SmithayHandle(w)
    /\ \/ i < Len(dispatched)
       \/ bePc \notin HandlerSteps \cup {"panicked"}
       \/ /\ bePc \in HandlerSteps
          /\ \E j, k \in 1..Len(AddedWindowOrder) :
                /\ AddedWindowOrder[j] = "aw_managed"
                /\ AddedWindowOrder[k] = bePc
                /\ j < k

C23_AddedWindowAtomic ==
    /\ \A r \in Readers :
          (rd[r].pc = "reading" /\ window_registry[rd[r].win].data.managed) =>
             LET w == rd[r].win
                 stores == { i \in 1..Len(dispatched) : StoredManaged(i, w) }
             IN /\ stores # {}
                /\ \A i \in stores :
                      (\A j \in stores : j <= i) =>
                         window_registry[w].data.floating = dispatched[i].floating
    /\ \A r \in Readers : rd[r].pc = "reading" => ~ locks[rd[r].win].writer
    /\ bePc \in {"aw_floating", "aw_managed"} =>
          (locks[cur[1].handle[2]].writer /\ locks[cur[1].handle[2]].readers = 0)

C23_Witness ==
    /\ Len(dispatched) = 2
    /\ dispatched[1].floating
    /\ ~ dispatched[2].floating
    /\ bePc = "aw_managed"
    /\ window_registry[1].data.managed
    /\ ~ window_registry[1].data.floating
    /\ rd["output_a"].pc = "read"
    /\ rd["output_b"].pc = "done"

C25_VisibleGeometryUnwritten ==
    /\ [](\A h \in DOMAIN window_registry :
             /\ ~ window_registry[h].data.visible
             /\ window_registry[h].data.geometry = None)
    /\ [][\A h \in DOMAIN window_registry' :
             h \notin DOMAIN window_registry =>
                window_registry'[h].data =
                   [managed |-> FALSE, floating |-> FALSE, visible |-> FALSE,
                    geometry |-> None]]_vars
    /\ [][\A h \in DOMAIN window_registry :
             /\ h \in DOMAIN window_registry'
             /\ window_registry'[h].data.visible = window_registry[h].data.visible
             /\ window_registry'[h].data.geometry = window_registry[h].data.geometry
             /\ window_registry[h].data.managed => window_registry'[h].data.managed
             /\ window_registry'[h].data.managed # window_registry[h].data.managed =>
                   /\ actionQ # << >>
                   /\ dispatched' = Append(dispatched, Head(actionQ))
                   /\ Head(actionQ).kind = "AddedWindow"
                   /\ Head(actionQ).handle = SmithayHandle(h)
             /\ (/\ actionQ # << >>
                 /\ dispatched' = Append(dispatched, Head(actionQ))
                 /\ Head(actionQ).kind = "UpdateWindows") =>
                   window_registry'[h].data = window_registry[h].data]_vars

C25_Witness ==
    /\ Len(dispatched) = 2
    /\ dispatched[1].kind = "AddedWindow"
    /\ dispatched[1].handle = SmithayHandle(1)
    /\ dispatched[1].floating
    /\ dispatched[2].kind = "UpdateWindows"
    /\ Len(dispatched[2].windows) = 1
    /\ bePc # "panicked"
    /\ window_registry[1].data =
          [managed |-> TRUE, floating |-> TRUE, visible |-> FALSE, geometry |-> None]
    /\ window_registry[1].window.pending_size # None
    /\ Len(window_registry) = 2
    /\ window_registry[2].data = ManagedWindowData_default

====
